---- MODULE Spec2Model ----
(***************************************************************************)
(* Model of struct2csv.go: WriteCSV, extractHeaders, extractRow,           *)
(* isIgnoredField, isSubStruct and formatValue.                            *)
(*                                                                         *)
(* Go strings are TLA+ strings (TLC treats them as sequences of            *)
(* characters: \o, Len, SubSeq).  A reflect.Type is a record               *)
(*   [kind, isTime, fields, elem]                                          *)
(* and a reflect.StructField is [hasTag, tag, anonymous, type].  A         *)
(* reflect.Value is a record                                               *)
(*   [kind, isTime, isNil, str, num, flag, tm, fields]                     *)
(* whose fields component holds the struct's field values, or the pointee  *)
(* of a non-nil pointer.  All struct fields of the modelled types are      *)
(* exported.                                                               *)
(***************************************************************************)
EXTENDS Integers, Sequences, FiniteSets, TLC

(***************************************************************************)
(* Bounds                                                                  *)
(***************************************************************************)
\* total number of fields (at all nesting levels) of an enumerated type
MaxFields == 2
\* length of the exported collection
MaxRecords == 2
\* capacity of the encoder's buffer (bufio's default is 4096), scaled down
BufSize == 8
\* number of sink writes that succeed before an unreliable sink fails
MaxSinkOK == 2

(***************************************************************************)
(* reflect.Type descriptors                                                *)
(***************************************************************************)
BasicType(k) == [kind |-> k, isTime |-> FALSE, fields |-> <<>>, elem |-> <<>>]

\* reflect.TypeOf(time.Time{})
TimeType == [kind |-> "struct", isTime |-> TRUE, fields |-> <<>>, elem |-> <<>>]

StructOf(fs) == [kind |-> "struct", isTime |-> FALSE, fields |-> fs, elem |-> <<>>]

PtrTo(t) == [kind |-> "ptr", isTime |-> FALSE, fields |-> <<>>, elem |-> <<t>>]

SliceOf(t) == [kind |-> "slice", isTime |-> FALSE, fields |-> <<>>, elem |-> <<t>>]

\* reflect.Type.Elem()
TypeElem(t) == t.elem[1]

\* reflect.Type.NumField()
NumField(t) == Len(t.fields)

\* a field declared with the tag `csv:"label"`
Tagged(label, t) == [hasTag |-> TRUE, tag |-> label, anonymous |-> FALSE, type |-> t]

\* a field declared without any csv tag
Untagged(t) == [hasTag |-> FALSE, tag |-> "", anonymous |-> FALSE, type |-> t]

\* an embedded (anonymous) field
Embedded(f) == [f EXCEPT !.anonymous = TRUE]

\* field.Tag.Get("csv"): the empty string when the key is absent
TagGet(field) == IF field.hasTag THEN field.tag ELSE ""

(***************************************************************************)
(* reflect.Value                                                           *)
(***************************************************************************)
ZeroTime == [year |-> 1, month |-> 1, day |-> 1, hour |-> 0, minute |-> 0]

\* the zero reflect.Value (Kind() == Invalid), as Elem() of a nil pointer
ZeroValue ==
  [kind |-> "invalid", isTime |-> FALSE, isNil |-> FALSE, str |-> "", num |-> 0,
   flag |-> FALSE, tm |-> ZeroTime, fields |-> <<>>]

StringValue(s) == [ZeroValue EXCEPT !.kind = "string", !.str = s]

IntValue(n) == [ZeroValue EXCEPT !.kind = "int", !.num = n]

\* a float64 holding twice/2: the modelled floats are the multiples of 0.5
FloatValue(twice) == [ZeroValue EXCEPT !.kind = "float", !.num = twice]

BoolValue(b) == [ZeroValue EXCEPT !.kind = "bool", !.flag = b]

TimeValue(t) == [ZeroValue EXCEPT !.kind = "struct", !.isTime = TRUE, !.tm = t]

StructValue(vs) == [ZeroValue EXCEPT !.kind = "struct", !.fields = vs]

SliceValue == [ZeroValue EXCEPT !.kind = "slice"]

NilPtr == [ZeroValue EXCEPT !.kind = "ptr", !.isNil = TRUE]

PtrValue(v) == [ZeroValue EXCEPT !.kind = "ptr", !.fields = <<v>>]

\* reflect.Value.Elem() of a pointer
ValueElem(v) == IF v.isNil THEN ZeroValue ELSE v.fields[1]

(***************************************************************************)
(* strconv and time formatting                                             *)
(***************************************************************************)
Digit(d) == SubSeq("0123456789", d + 1, d + 1)

RECURSIVE FormatUint(_)
FormatUint(n) == IF n < 10 THEN Digit(n) ELSE FormatUint(n \div 10) \o Digit(n % 10)

\* strconv.FormatInt(n, 10)
FormatInt(n) == IF n < 0 THEN "-" \o FormatUint(0 - n) ELSE FormatUint(n)

\* strconv.FormatFloat(twice/2, 'f', -1, 64)
FormatFloat(twice) ==
  LET a == IF twice < 0 THEN 0 - twice ELSE twice
  IN (IF twice < 0 THEN "-" ELSE "") \o FormatUint(a \div 2)
       \o (IF a % 2 = 1 THEN ".5" ELSE "")

\* strconv.FormatBool
FormatBool(b) == IF b THEN "true" ELSE "false"

RECURSIVE Pad(_, _)
Pad(s, w) == IF Len(s) >= w THEN s ELSE Pad("0" \o s, w)

\* time.Time.Format("2006-01-02 15:04")
TimeFormat(t) ==
  Pad(FormatUint(t.year), 4) \o "-" \o Pad(FormatUint(t.month), 2) \o "-"
    \o Pad(FormatUint(t.day), 2) \o " " \o Pad(FormatUint(t.hour), 2) \o ":"
    \o Pad(FormatUint(t.minute), 2)

(***************************************************************************)
(* formatValue, isIgnoredField, isSubStruct                                *)
(***************************************************************************)
formatValue(value0) ==
  IF value0.kind = "ptr" /\ value0.isNil THEN ""
  ELSE LET value == IF value0.kind = "ptr" THEN ValueElem(value0) ELSE value0
       IN CASE value.kind = "string" -> value.str
            [] value.kind = "int" -> FormatInt(value.num)
            [] value.kind = "float" -> FormatFloat(value.num)
            [] value.kind = "bool" -> FormatBool(value.flag)
            [] value.kind = "struct" ->
                 IF value.isTime THEN TimeFormat(value.tm) ELSE ""
            [] OTHER -> ""

isIgnoredField_never(field) == TagGet(field) = "_"

isIgnoredField_empty(field) == TagGet(field) \in {"-", ""}

isIgnoredField(field) == TagGet(field) = "-"

isSubStruct(field) ==
  field.type.kind = "struct" /\ ~field.type.isTime /\ ~field.anonymous

(***************************************************************************)
(* extractHeaders                                                          *)
(***************************************************************************)
PrefixAll_parent(csvTag, subHeaders) ==
  <<csvTag>> \o [j \in 1..Len(subHeaders) |-> csvTag \o "." \o subHeaders[j]]

\* lines 115-120: fmt.Sprintf("%s.%s", csvTag, subHeader) for each subHeader
PrefixAll(csvTag, subHeaders) ==
  [j \in 1..Len(subHeaders) |-> csvTag \o "." \o subHeaders[j]]

RECURSIVE extractHeaders(_)
RECURSIVE extractHeadersLoop(_, _, _)
\* the for loop of extractHeaders from field i on (1-based), headers so far
extractHeadersLoop(elemType, i, headers) ==
  IF i > NumField(elemType) THEN headers
  ELSE LET field == elemType.fields[i]
           csvTag == TagGet(field)
       IN IF isIgnoredField(field)
          THEN extractHeadersLoop(elemType, i + 1, headers)
          ELSE IF isSubStruct(field)
               THEN extractHeadersLoop(elemType, i + 1,
                      headers \o PrefixAll(csvTag, extractHeaders(field.type)))
               ELSE extractHeadersLoop(elemType, i + 1, Append(headers, csvTag))

extractHeaders(elemType) == extractHeadersLoop(elemType, 1, <<>>)

(***************************************************************************)
(* extractRow: [panic, row].  value.Field(i) panics on the zero Value.     *)
(***************************************************************************)
RowPanic == [panic |-> TRUE, row |-> <<>>]

RECURSIVE extractRow(_, _)
RECURSIVE extractRowLoop(_, _, _, _)
extractRowLoop(value, elemType, i, row) ==
  IF i > NumField(elemType) THEN [panic |-> FALSE, row |-> row]
  ELSE LET field == elemType.fields[i]
       IN IF isIgnoredField(field)
          THEN extractRowLoop(value, elemType, i + 1, row)
          ELSE IF value.kind # "struct" THEN RowPanic
          ELSE LET fieldValue == value.fields[i]
               IN IF isSubStruct(field)
                  THEN LET sub == extractRow(fieldValue, field.type)
                       IN IF sub.panic THEN RowPanic
                          ELSE extractRowLoop(value, elemType, i + 1,
                                              row \o sub.row)
                  ELSE extractRowLoop(value, elemType, i + 1,
                                      Append(row, formatValue(fieldValue)))

extractRow(value, elemType) == extractRowLoop(value, elemType, 1, <<>>)

(***************************************************************************)
(* The record types and record values the extraction is exercised on       *)
(***************************************************************************)
LeafTypes ==
  {BasicType("string"), BasicType("int"), TimeType, PtrTo(BasicType("string"))}

\* the label of the field declared at position p of its struct
Label(p) == SubSeq("abcdefgh", p, p)

\* the declarations of a field of type t at position p: labelled, excluded, untagged
FieldsOf(t, p) == {Tagged(Label(p), t), Tagged("-", t), Untagged(t)}

RECURSIVE Forests(_, _)
RECURSIVE Trees(_, _)
\* field lists with n fields in all (nested ones included), first field at position p
Forests(n, p) ==
  IF n = 0 THEN {<<>>}
  ELSE UNION { { <<f>> \o rest : f \in Trees(k, p), rest \in Forests(n - k, p + 1) } :
               k \in 1..n }

\* fields at position p with k fields in all: a leaf, or a struct (embedded or not)
Trees(k, p) ==
  LET leaves == IF k = 1 THEN UNION {FieldsOf(t, p) : t \in LeafTypes} ELSE {}
      structs == UNION { FieldsOf(StructOf(sub), p) : sub \in Forests(k - 1, 1) }
  IN leaves \cup structs \cup {Embedded(f) : f \in structs}

EnumeratedTypes == {StructOf(fs) : fs \in UNION {Forests(n, 1) : n \in 0..MaxFields}}

Variants == {1, 2}

RECURSIVE ValueOf(_, _)
\* a value of type t: variant 1 is filled in, variant 2 has nil pointers,
\* empty strings and negative numbers
ValueOf(t, variant) ==
  CASE t.kind = "string" -> StringValue(IF variant = 1 THEN "x" ELSE "")
    [] t.kind = "int" -> IntValue(IF variant = 1 THEN 7 ELSE 0 - 12)
    [] t.kind = "float" -> FloatValue(IF variant = 1 THEN 3 ELSE 0 - 4)
    [] t.kind = "bool" -> BoolValue(variant = 1)
    [] t.kind = "ptr" ->
         IF variant = 1 THEN PtrValue(ValueOf(TypeElem(t), 1)) ELSE NilPtr
    [] t.kind = "struct" /\ t.isTime ->
         TimeValue(IF variant = 1
                   THEN [year |-> 2023, month |-> 7, day |-> 4, hour |-> 9, minute |-> 5]
                   ELSE [year |-> 987, month |-> 12, day |-> 31, hour |-> 23, minute |-> 40])
    [] t.kind = "struct" /\ ~t.isTime ->
         StructValue([j \in 1..NumField(t) |-> ValueOf(t.fields[j].type, variant)])
    [] OTHER -> SliceValue

\* spec scenario A: Name, Age, Hidden (excluded)
ScenarioA ==
  StructOf(<<Tagged("Name", BasicType("string")), Tagged("Age", BasicType("int")),
             Tagged("-", BasicType("string"))>>)

\* spec scenario B: Contact { Email, Secret (excluded) }
ScenarioB ==
  StructOf(<<Tagged("Contact",
               StructOf(<<Tagged("Email", BasicType("string")),
                          Tagged("-", BasicType("string"))>>))>>)

\* after the Model of the doc comment of WriteCSV, with an untagged field
WalletUser ==
  StructOf(<<Tagged("Nm", PtrTo(BasicType("string"))),
             Tagged("-", PtrTo(BasicType("string")))>>)

Model ==
  StructOf(<<Tagged("-", BasicType("string")), Tagged("Amt", BasicType("float")),
             Tagged("Ref", PtrTo(BasicType("string"))), Tagged("At", TimeType),
             Untagged(BasicType("bool")), Tagged("U", WalletUser),
             Tagged("-", WalletUser)>>)

\* a sub-struct inside a sub-struct, an embedded struct and a slice field
TwoLevel ==
  StructOf(<<Tagged("O", StructOf(<<Tagged("I",
                 StructOf(<<Tagged("L", BasicType("string")),
                            Tagged("M", BasicType("int"))>>))>>)),
             Embedded(Tagged("E", WalletUser)),
             Tagged("S", SliceOf(BasicType("int")))>>)

AllExcluded == StructOf(<<Tagged("-", BasicType("string"))>>)

ExportTypes == {ScenarioA, ScenarioB, Model, TwoLevel, AllExcluded}

RecordTypes == EnumeratedTypes \cup ExportTypes

(***************************************************************************)
(* The sink (the http.ResponseWriter) and the encoder: csv.Writer over a   *)
(* bufio.Writer of BufSize bytes.  A sink is                               *)
(*   [bytes, calls, okLeft, reliable, stringWriter, failed]                *)
(* and an unreliable sink fails every write once okLeft writes succeeded.  *)
(* The encoder state is [buf, err, sink]: err is bufio's sticky error.     *)
(***************************************************************************)
SinkErr == "sink write failed"

\* w.Write(p) / w.WriteString(p): [sink, err]; a failed write takes no bytes
sinkWrite(sink, p) ==
  IF sink.reliable \/ sink.okLeft > 0
  THEN [sink |-> [sink EXCEPT !.bytes = sink.bytes \o p, !.calls = sink.calls + 1,
                              !.okLeft = IF sink.reliable THEN sink.okLeft
                                         ELSE sink.okLeft - 1],
        err |-> FALSE]
  ELSE [sink |-> [sink EXCEPT !.calls = sink.calls + 1, !.failed = TRUE],
        err |-> TRUE]

\* bufio.Writer.Available()
Available(io) == BufSize - Len(io.buf)

\* bufio.Writer.Flush(), which writer.Flush() of csv.Writer calls
bufFlush(io) ==
  IF io.err THEN io
  ELSE IF Len(io.buf) = 0 THEN io
  ELSE LET r == sinkWrite(io.sink, io.buf)
       IN IF r.err THEN [io EXCEPT !.sink = r.sink, !.err = TRUE]
          ELSE [io EXCEPT !.sink = r.sink, !.buf = ""]

RECURSIVE bufWriteString(_, _)
\* bufio.Writer.WriteString(s)
bufWriteString(io, s) ==
  IF Len(s) > Available(io) /\ ~io.err
  THEN IF Len(io.buf) = 0 /\ io.sink.stringWriter
       THEN LET r == sinkWrite(io.sink, s)
            IN bufWriteString([io EXCEPT !.sink = r.sink, !.err = r.err],
                              IF r.err THEN s ELSE "")
       ELSE LET n == Available(io)
            IN bufWriteString(bufFlush([io EXCEPT !.buf = io.buf \o SubSeq(s, 1, n)]),
                              SubSeq(s, n + 1, Len(s)))
  ELSE IF io.err THEN io ELSE [io EXCEPT !.buf = io.buf \o s]

\* bufio.Writer.WriteByte(c) (and WriteRune of an ASCII rune)
bufWriteByte(io, c) ==
  IF io.err THEN io
  ELSE LET io1 == IF Available(io) <= 0 THEN bufFlush(io) ELSE io
       IN IF io1.err THEN io1 ELSE [io1 EXCEPT !.buf = io1.buf \o c]

RECURSIVE csvWriteLoop(_, _, _)
\* csv.Writer.Write(record) from field n on; the cells of the model need no
\* quoting (no delimiter, quote, CR, LF or leading space), so each is
\* written verbatim; the record ends with "\n".  The result's err is the
\* error Write returns.
csvWriteLoop(io, record, n) ==
  IF n > Len(record) THEN bufWriteByte(io, "\n")
  ELSE LET io1 == IF n > 1 THEN bufWriteByte(io, ",") ELSE io
       IN IF io1.err THEN io1
          ELSE LET io2 == bufWriteString(io1, record[n])
               IN IF io2.err THEN io2 ELSE csvWriteLoop(io2, record, n + 1)

csvWrite(io, record) == csvWriteLoop(io, record, 1)

(***************************************************************************)
(* State                                                                   *)
(***************************************************************************)
VARIABLES
  data,      \* the data argument: [type, elems]
  filename,  \* the filename argument
  h,         \* the http.Header: key -> list of values
  writer,    \* the csv.Writer: [buf, err]
  sink,      \* the http.ResponseWriter
  pc,        \* position in WriteCSV, or in the extraction of one record
  i,         \* loop index of WriteCSV (0-based)
  headers,   \* result of extractHeaders
  row,       \* result of the last extractRow
  ret        \* what WriteCSV returned: [isNil, msg]

vars == <<data, filename, h, writer, sink, pc, i, headers, row, ret>>

HeaderKeys == {"Content-Type", "Content-Disposition"}

NoReturn == [isNil |-> FALSE, msg |-> ""]

NilError == [isNil |-> TRUE, msg |-> ""]

Error(m) == [isNil |-> FALSE, msg |-> m]

ErrNotSlice == Error("data is not a slice")

ErrNotStructs == Error("slice elements are not structs")

IO == [buf |-> writer.buf, err |-> writer.err, sink |-> sink]

\* value.Type().Elem() with one pointer level stripped (lines 62-66)
isPointer == TypeElem(data.type).kind = "ptr"

elemType == IF isPointer THEN TypeElem(TypeElem(data.type)) ELSE TypeElem(data.type)

\* value.Index(j) with the pointer followed (lines 82-85), j 1-based
ElemAt(j) == IF isPointer THEN ValueElem(data.elems[j]) ELSE data.elems[j]

(***************************************************************************)
(* Inputs                                                                  *)
(***************************************************************************)
RECURSIVE SeqsUpTo(_, _)
SeqsUpTo(S, n) ==
  IF n = 0 THEN {<<>>}
  ELSE SeqsUpTo(S, n - 1) \cup
         {Append(q, x) : q \in {r \in SeqsUpTo(S, n - 1) : Len(r) = n - 1}, x \in S}

\* a slice of T: []T holding the variants of T
SlicesOf(T) ==
  {[type |-> SliceOf(T), elems |-> [j \in 1..Len(vs) |-> ValueOf(T, vs[j])]] :
     vs \in SeqsUpTo(Variants, MaxRecords)}

\* a slice of *T: variant 0 is the nil pointer
PtrSlicesOf(T) ==
  {[type |-> SliceOf(PtrTo(T)),
    elems |-> [j \in 1..Len(vs) |->
                 IF vs[j] = 0 THEN NilPtr ELSE PtrValue(ValueOf(T, vs[j]))]] :
     vs \in SeqsUpTo(Variants \cup {0}, MaxRecords)}

\* arguments that are no slice: a struct, a pointer to a slice, a string
NonSlices ==
  {[type |-> ScenarioA, elems |-> <<>>],
   [type |-> PtrTo(SliceOf(ScenarioA)), elems |-> <<>>],
   [type |-> BasicType("string"), elems |-> <<>>]}

\* slices whose elements are no structs: []int, []*string, []**T, [][]T
NonStructSlices ==
  UNION {SlicesOf(BasicType("int")), PtrSlicesOf(BasicType("string")),
         PtrSlicesOf(PtrTo(ScenarioA)), SlicesOf(SliceOf(ScenarioA))}

DataArgs ==
  NonSlices \cup NonStructSlices
    \cup UNION {SlicesOf(T) \cup PtrSlicesOf(T) : T \in ExportTypes}

NewSink(k, r, sw) ==
  [bytes |-> "", calls |-> 0, okLeft |-> k, reliable |-> r, stringWriter |-> sw,
   failed |-> FALSE]

\* a sink that never fails, or one that fails after k writes
Sinks ==
  {NewSink(0, TRUE, sw) : sw \in BOOLEAN}
    \cup {NewSink(k, FALSE, sw) : k \in 0..MaxSinkOK, sw \in BOOLEAN}

InitCommon ==
  /\ filename = "out.csv"
  /\ h = [k \in HeaderKeys |-> <<>>]
  /\ writer = [buf |-> "", err |-> FALSE]
  /\ i = 0
  /\ headers = <<>>
  /\ row = <<>>
  /\ ret = NoReturn

Init ==
  /\ data \in DataArgs
  /\ sink \in Sinks
  /\ pc = "entry"
  /\ InitCommon

(***************************************************************************)
(* WriteCSV                                                                *)
(***************************************************************************)
headerSet_noop(hdr, key, val) == hdr

\* http.Header.Set
headerSet(hdr, key, val) == [hdr EXCEPT ![key] = <<val>>]

\* the deferred writer.Flush() (line 55), run on return and on panic
DeferredFlush(io) == bufFlush(io)

\* pc' and ret' of a return, with the deferred flush applied to io
Return(io, r) ==
  LET io1 == DeferredFlush(io)
  IN /\ writer' = [buf |-> io1.buf, err |-> io1.err]
     /\ sink' = io1.sink
     /\ ret' = r
     /\ pc' = "done"

\* lines 48-55: set the headers, create the writer
SetHeaders ==
  /\ pc = "entry"
  /\ h' = headerSet(headerSet(h, "Content-Type", "text/csv"),
                    "Content-Disposition",
                    "attachment; filename=\"" \o filename \o "\"")
  /\ writer' = [buf |-> "", err |-> FALSE]
  /\ pc' = "validate"
  /\ UNCHANGED <<data, filename, sink, i, headers, row, ret>>

validate_noStructCheck(d) ==
  IF d.type.kind # "slice" THEN ErrNotSlice ELSE NilError

\* lines 57-69: the error of the validation, NilError when it passes
validate(d) ==
  IF d.type.kind # "slice" THEN ErrNotSlice
  ELSE LET et == IF TypeElem(d.type).kind = "ptr" THEN TypeElem(TypeElem(d.type))
                 ELSE TypeElem(d.type)
       IN IF et.kind # "struct" THEN ErrNotStructs ELSE NilError

Validate ==
  /\ pc = "validate"
  /\ IF validate(data).isNil
     THEN /\ pc' = "headers"
          /\ UNCHANGED <<writer, sink, ret>>
     ELSE Return(IO, validate(data))
  /\ UNCHANGED <<data, filename, h, i, headers, row>>

\* lines 72-78: extractHeaders never fails; write the header row
WriteHeaders ==
  /\ pc = "headers"
  /\ headers' = extractHeaders(elemType)
  /\ LET io1 == csvWrite(IO, headers')
     IN IF io1.err
        THEN Return(io1, Error("failed to write headers: " \o SinkErr))
        ELSE /\ writer' = [buf |-> io1.buf, err |-> io1.err]
             /\ sink' = io1.sink
             /\ pc' = "rows"
             /\ UNCHANGED ret
  /\ i' = 0
  /\ UNCHANGED <<data, filename, h, row>>

\* lines 81-95: one iteration of the loop; value.Field panics on a nil element
WriteRow ==
  /\ pc = "rows"
  /\ i < Len(data.elems)
  /\ LET r == extractRow(ElemAt(i + 1), elemType)
     IN IF r.panic
        THEN LET io1 == DeferredFlush(IO)
             IN /\ writer' = [buf |-> io1.buf, err |-> io1.err]
                /\ sink' = io1.sink
                /\ pc' = "panic"
                /\ UNCHANGED <<i, row, ret>>
        ELSE /\ row' = r.row
             /\ LET io1 == csvWrite(IO, r.row)
                IN IF io1.err
                   THEN /\ Return(io1, Error("failed to write row " \o FormatInt(i)
                                              \o ": " \o SinkErr))
                        /\ UNCHANGED i
                   ELSE /\ writer' = [buf |-> io1.buf, err |-> io1.err]
                        /\ sink' = io1.sink
                        /\ i' = i + 1
                        /\ UNCHANGED <<pc, ret>>
  /\ UNCHANGED <<data, filename, h, headers>>

\* line 97: the loop is over, return nil
ReturnNil ==
  /\ pc = "rows"
  /\ i >= Len(data.elems)
  /\ Return(IO, NilError)
  /\ UNCHANGED <<data, filename, h, i, headers, row>>

Next == SetHeaders \/ Validate \/ WriteHeaders \/ WriteRow \/ ReturnNil

Spec == Init /\ [][Next]_vars

(***************************************************************************)
(* The extraction of one record, for every enumerated record type          *)
(***************************************************************************)
InitExtract ==
  /\ \E T \in RecordTypes, v \in Variants :
       data = [type |-> SliceOf(T), elems |-> <<ValueOf(T, v)>>]
  /\ sink = NewSink(0, TRUE, FALSE)
  /\ pc = "extract"
  /\ InitCommon

ExtractHeaders ==
  /\ pc = "extract"
  /\ headers' = extractHeaders(elemType)
  /\ pc' = "extractRow"
  /\ UNCHANGED <<data, filename, h, writer, sink, i, row, ret>>

ExtractRow ==
  /\ pc = "extractRow"
  /\ row' = extractRow(ElemAt(1), elemType).row
  /\ pc' = "extracted"
  /\ UNCHANGED <<data, filename, h, writer, sink, i, headers, ret>>

NextExtract == ExtractHeaders \/ ExtractRow

SpecExtract == InitExtract /\ [][NextExtract]_vars

(***************************************************************************)
(* Properties                                                              *)
(***************************************************************************)
\* the field carries the tag csv:"-"
Excluded(field) == field.hasTag /\ field.tag = "-"

\* the fields to delete: those tagged csv:"-", or those without a csv tag
Dropped(field, drop) ==
  IF drop = "excluded" THEN Excluded(field) ELSE ~field.hasTag

\* the positions of the fields of t that are not dropped, in declaration order
RECURSIVE KeptFrom(_, _, _)
KeptFrom(t, j, drop) ==
  IF j > NumField(t) THEN <<>>
  ELSE (IF Dropped(t.fields[j], drop) THEN <<>> ELSE <<j>>) \o KeptFrom(t, j + 1, drop)

RECURSIVE StripType(_, _)
\* t without the fields that are dropped, at every nesting level
StripType(t, drop) ==
  IF t.kind # "struct" \/ t.isTime THEN t
  ELSE LET ks == KeptFrom(t, 1, drop)
       IN StructOf([j \in 1..Len(ks) |->
                      [t.fields[ks[j]] EXCEPT
                         !.type = StripType(t.fields[ks[j]].type, drop)]])

RECURSIVE StripValue(_, _, _)
\* the value v of type t without the fields that are dropped
StripValue(v, t, drop) ==
  IF t.kind # "struct" \/ t.isTime THEN v
  ELSE LET ks == KeptFrom(t, 1, drop)
       IN StructValue([j \in 1..Len(ks) |->
                         StripValue(v.fields[ks[j]], t.fields[ks[j]].type, drop)])

RECURSIVE LeafCount(_)
RECURSIVE LeafCountFrom(_, _)
\* the fields of t, at any depth, that are not excluded, have no excluded
\* ancestor and are no nested sub-records themselves
LeafCountFrom(t, j) ==
  IF j > NumField(t) THEN 0
  ELSE LET field == t.fields[j]
       IN (IF Excluded(field) THEN 0
           ELSE IF isSubStruct(field) THEN LeafCount(field.type) ELSE 1)
            + LeafCountFrom(t, j + 1)

LeafCount(t) == LeafCountFrom(t, 1)

Extracted == pc = "extracted"

\* the record and its type in the extraction of one record
TheValue == ElemAt(1)

\* C1: the row extractRow produces for a record has exactly as many cells
\* as extractHeaders produces columns for the record's type.
C1_ColumnCount == Extracted => Len(row) = Len(headers)

\* a record with an excluded field and a nested sub-record that has columns
C1_Witness ==
  /\ Extracted
  /\ Len(row) >= 2
  /\ \E k \in 1..NumField(elemType) : Excluded(elemType.fields[k])
  /\ \E k \in 1..NumField(elemType) :
       /\ isSubStruct(elemType.fields[k]) /\ ~Excluded(elemType.fields[k])
       /\ LeafCount(elemType.fields[k].type) >= 1

\* C4: fields tagged csv:"-" contribute nothing: headers and row are those
\* of the type and value with every such field (top-level or nested, with
\* all its children when it is a sub-record) deleted.
C4_Exclusion ==
  Extracted =>
    /\ headers = extractHeaders(StripType(elemType, "excluded"))
    /\ row = extractRow(StripValue(TheValue, elemType, "excluded"),
                        StripType(elemType, "excluded")).row

\* an excluded leaf, an excluded sub-record with children, and an excluded
\* child of an exported sub-record
C4_Witness ==
  /\ Extracted
  /\ \E k \in 1..NumField(elemType) :
       Excluded(elemType.fields[k]) /\ ~isSubStruct(elemType.fields[k])
  /\ \E k \in 1..NumField(elemType) :
       /\ Excluded(elemType.fields[k]) /\ isSubStruct(elemType.fields[k])
       /\ NumField(elemType.fields[k].type) >= 1
  /\ \E k \in 1..NumField(elemType) :
       /\ ~Excluded(elemType.fields[k]) /\ isSubStruct(elemType.fields[k])
       /\ \E c \in 1..NumField(elemType.fields[k].type) :
            Excluded(elemType.fields[k].type.fields[c])
  /\ Len(headers) >= 2

\* C6 as stated: a field without a csv tag is excluded, so headers and row
\* are those of the type and value with every untagged field deleted.
C6_UntaggedExcluded ==
  Extracted =>
    /\ headers = extractHeaders(StripType(elemType, "untagged"))
    /\ row = extractRow(StripValue(TheValue, elemType, "untagged"),
                        StripType(elemType, "untagged")).row

\* the struct with the fields a..b of t, and the matching part of a value
FieldsFromTo(t, a, b) == StructOf(SubSeq(t.fields, a, b))

ValuesFromTo(v, a, b) == StructValue(SubSeq(v.fields, a, b))

\* C6 amended: a field without a csv tag is exported under the empty label.
\* A top-level untagged field contributes, at its position, the column ""
\* and the cell of its formatted value (or, when it is a nested sub-record,
\* its children's columns prefixed by "." and their cells); and at every
\* level only the fields tagged csv:"-" are left out of the count.
C6_UntaggedIncluded ==
  Extracted =>
    /\ Len(headers) = LeafCount(elemType)
    /\ Len(row) = LeafCount(elemType)
    /\ \A k \in 1..NumField(elemType) :
         LET field == elemType.fields[k]
             n == NumField(elemType)
         IN ~field.hasTag =>
              /\ headers =
                   extractHeaders(FieldsFromTo(elemType, 1, k - 1))
                     \o (IF isSubStruct(field)
                         THEN [j \in 1..LeafCount(field.type) |->
                                 "." \o extractHeaders(field.type)[j]]
                         ELSE <<"">>)
                     \o extractHeaders(FieldsFromTo(elemType, k + 1, n))
              /\ row =
                   extractRow(ValuesFromTo(TheValue, 1, k - 1),
                              FieldsFromTo(elemType, 1, k - 1)).row
                     \o (IF isSubStruct(field)
                         THEN extractRow(TheValue.fields[k], field.type).row
                         ELSE <<formatValue(TheValue.fields[k])>>)
                     \o extractRow(ValuesFromTo(TheValue, k + 1, n),
                                   FieldsFromTo(elemType, k + 1, n)).row

\* an untagged string field holding "x" after a labelled field
C6_Witness ==
  /\ Extracted
  /\ NumField(elemType) = 2
  /\ elemType.fields[1].hasTag /\ ~Excluded(elemType.fields[1])
  /\ ~elemType.fields[2].hasTag /\ elemType.fields[2].type.kind = "string"
  /\ Len(headers) = 2 /\ headers[2] = ""
  /\ Len(row) = 2 /\ row[2] = "x"

RECURSIVE ClaimedColumns(_, _)
\* the columns C3 describes for the fields of t from position j on
ClaimedColumns(t, j) ==
  IF j > NumField(t) THEN <<>>
  ELSE LET field == t.fields[j]
           sub == field.type
           ks == KeptFrom(sub, 1, "excluded")
       IN (IF Excluded(field) THEN <<>>
           ELSE IF isSubStruct(field)
                THEN [c \in 1..Len(ks) |->
                        TagGet(field) \o "." \o TagGet(sub.fields[ks[c]])]
                ELSE <<TagGet(field)>>)
            \o ClaimedColumns(t, j + 1)

\* C3: extractHeaders returns, in declaration order, one column (its label)
\* for each non-excluded field that is no nested sub-record, and for a
\* nested sub-record one column "<parent label>.<child label>" per
\* non-excluded child field.
C3_HeaderLayout == Extracted => headers = ClaimedColumns(elemType, 1)

RECURSIVE DepthOneCount(_, _)
\* the number of columns when sub-records are flattened one level only
DepthOneCount(t, j) ==
  IF j > NumField(t) THEN 0
  ELSE LET field == t.fields[j]
       IN (IF Excluded(field) THEN 0
           ELSE IF isSubStruct(field)
                THEN Len(KeptFrom(field.type, 1, "excluded"))
                ELSE 1)
            + DepthOneCount(t, j + 1)

\* C5: flattening depth is exactly one: a sub-record nested in a nested
\* sub-record is not expanded into columns or cells of its own.
C5_DepthOne ==
  Extracted =>
    /\ Len(headers) = DepthOneCount(elemType, 1)
    /\ Len(row) = DepthOneCount(elemType, 1)

(***************************************************************************)
(* Properties of WriteCSV                                                  *)
(***************************************************************************)
RECURSIVE Join(_, _)
Join(record, n) ==
  IF n > Len(record) THEN ""
  ELSE (IF n > 1 THEN "," ELSE "") \o record[n] \o Join(record, n + 1)

\* the line of a record in the CSV text
EncodeRecord(record) == Join(record, 1) \o "\n"

RECURSIVE EncodeRows(_)
\* the lines of the data rows of elements j.. of the collection
EncodeRows(j) ==
  IF j > Len(data.elems) THEN ""
  ELSE EncodeRecord(extractRow(ElemAt(j), elemType).row) \o EncodeRows(j + 1)

Returned == pc = "done"

\* C2: when WriteCSV returns nil, the sink holds the header row followed by
\* the row of each element, in collection order.
C2_RowsReachSink ==
  (Returned /\ ret.isNil) =>
    sink.bytes = EncodeRecord(extractHeaders(elemType)) \o EncodeRows(1)

EmptyHeader == [k \in HeaderKeys |-> <<>>]

\* C7 as stated: on "data is not a slice" the header handle is unchanged.
C7_HeadersUnchanged == (Returned /\ ret = ErrNotSlice) => h = EmptyHeader

\* C7 amended: on "data is not a slice" both header fields have already
\* been set on the header handle; only the sink is untouched.
C7_HeadersSetOnNotSlice ==
  (Returned /\ ret = ErrNotSlice) =>
    /\ h["Content-Type"] = <<"text/csv">>
    /\ h["Content-Disposition"] = <<"attachment; filename=\"out.csv\"">>
    /\ sink.bytes = ""

C7_Witness == Returned /\ ret = ErrNotSlice /\ data.type.kind = "struct"

NotSlice == data.type.kind # "slice"

NotStructElems ==
  /\ data.type.kind = "slice"
  /\ (IF TypeElem(data.type).kind = "ptr" THEN TypeElem(TypeElem(data.type))
      ELSE TypeElem(data.type)).kind # "struct"

\* C8: when data is no slice, or its elements (one pointer level stripped)
\* are no structs, WriteCSV returns the matching error and the sink has
\* received nothing, the deferred flush included.
C8_ValidationNoWrite ==
  Returned =>
    /\ NotSlice => (ret = ErrNotSlice /\ sink.bytes = "" /\ sink.calls = 0)
    /\ NotStructElems => (ret = ErrNotStructs /\ sink.bytes = "" /\ sink.calls = 0)

\* a non-empty slice of pointers to pointers has been rejected
C8_Witness ==
  /\ Returned /\ ret = ErrNotStructs
  /\ Len(data.elems) > 0
  /\ TypeElem(data.type).kind = "ptr"

\* C9: a nil element of a slice of pointers does not make WriteCSV abort.
C9_NilElementPermitted ==
  (validate(data).isNil /\ isPointer /\ \E j \in 1..Len(data.elems) : data.elems[j].isNil)
    => pc # "panic"

\* C10: WriteCSV never returns nil after a write to the sink failed.
C10_SinkFailureReported == (Returned /\ sink.failed) => ~ret.isNil

====
